---- MODULE Spec2Model ----
(***************************************************************************)
(* Model of src/qualifier/qualifier.py: make_table renders a 2D list of    *)
(* values as a bordered text table.                                         *)
(*                                                                          *)
(* A Python str is a sequence of one-character strings.  The box-drawing    *)
(* glyphs of the border dictionary are written by the name of their key    *)
(* ("tl" is U+250C, "h" is U+2500, ...): each is ONE character of the       *)
(* output.  A cell value (typing.Any) is a record: a str or an int, turned  *)
(* into text by str() as Python does.  labels = None is NoneLabels.         *)
(***************************************************************************)
EXTENDS Integers, Sequences, FiniteSets, TLC

\* Bounds of the inputs: a table has at most MaxCells cells (rows x columns)
\* in at most MaxCols columns, and at most MaxCells rows when it has no column.
MaxCells == 4
MaxCols == 3

\* qualifier.py:15
EXTRA_SPACES == 2

\* qualifier.py:20-26 (one character per glyph)
border ==
  [h |-> "h", v |-> "v",
   tl |-> "tl", tc |-> "tc", tr |-> "tr",
   ml |-> "ml", mc |-> "mc", mr |-> "mr",
   bl |-> "bl", bc |-> "bc", br |-> "br"]

NL == "\n"
SP == " "

StrVal(s) == [kind |-> "str", s |-> s, n |-> 0]
IntVal(n) == [kind |-> "int", s |-> <<>>, n |-> n]

\* The values the cells and the labels are drawn from.
CellValues ==
  {StrVal(<<>>), IntVal(7), StrVal(<<"a", "b">>), StrVal(<<"a", "b", "c">>)}
LabelValues == {IntVal(12), StrVal(<<"a", "b", "c", "d">>)}

NoneLabels == [given |-> FALSE, items |-> <<>>]
SomeLabels(items) == [given |-> TRUE, items |-> items]

VARIABLES rows, labels, centered, pc, ret
vars == <<rows, labels, centered, pc, ret>>

----------------------------------------------------------------------------
(* Python built-ins used by the code *)

Digit(d) == <<"0", "1", "2", "3", "4", "5", "6", "7", "8", "9">>[d + 1]

RECURSIVE NatToStr(_)
NatToStr(n) == IF n < 10 THEN <<Digit(n)>>
               ELSE NatToStr(n \div 10) \o <<Digit(n % 10)>>

\* str(x): a str is itself, an int is its decimal numeral
str(x) == IF x.kind = "int"
          THEN (IF x.n < 0 THEN <<"-">> \o NatToStr(-x.n) ELSE NatToStr(x.n))
          ELSE x.s

max(a, b) == IF b > a THEN b ELSE a

\* ch * n
Repeat(ch, n) == [i \in 1..n |-> ch]

\* s.replace(old, new) for one-character old and new
replace(s, old, new) == [i \in 1..Len(s) |-> IF s[i] = old THEN new ELSE s[i]]

\* s.rjust(width, " ")
rjust(s, width) == IF Len(s) >= width THEN s
                   ELSE Repeat(SP, width - Len(s)) \o s

\* s.ljust(width, " ")
ljust(s, width) == IF Len(s) >= width THEN s
                   ELSE s \o Repeat(SP, width - Len(s))

\* s.center(width, " "): CPython pads left with
\* marg/2 + (marg & width & 1) characters and right with the rest
center(s, width) ==
  IF Len(s) >= width THEN s
  ELSE LET marg == width - Len(s)
           left == (marg \div 2) + (IF marg % 2 = 1 /\ width % 2 = 1 THEN 1 ELSE 0)
       IN Repeat(SP, left) \o s \o Repeat(SP, marg - left)

----------------------------------------------------------------------------
(* The helpers of qualifier.py *)

\* mutant: the final ljust is forgotten
paddedWord_NoFill(word, max_length, centered_, extra_spaces) ==
  LET total_length == max_length + extra_spaces IN
  IF centered_ THEN center(word, total_length)
  ELSE rjust(word, IF (extra_spaces \div 2) + Len(word) < total_length
                   THEN (extra_spaces \div 2) + Len(word) ELSE total_length)

\* mutant: no left margin in the left-aligned mode
paddedWord_NoMargin(word, max_length, centered_, extra_spaces) ==
  LET total_length == max_length + extra_spaces IN
  IF centered_ THEN center(word, total_length)
  ELSE ljust(word, total_length)

\* mutant: the left margin is extra_spaces instead of extra_spaces/2
paddedWord_WideMargin(word, max_length, centered_, extra_spaces) ==
  LET total_length == max_length + extra_spaces IN
  IF centered_ THEN center(word, total_length)
  ELSE ljust(rjust(word, IF extra_spaces + Len(word) < total_length
                         THEN extra_spaces + Len(word) ELSE total_length),
             total_length)

\* mutant: centering always puts the odd space on the right
paddedWord_RightBias(word, max_length, centered_, extra_spaces) ==
  LET total_length == max_length + extra_spaces IN
  IF centered_
  THEN (IF Len(word) >= total_length THEN word
        ELSE LET marg == total_length - Len(word) IN
             Repeat(SP, marg \div 2) \o word \o Repeat(SP, marg - (marg \div 2)))
  ELSE ljust(rjust(word, IF (extra_spaces \div 2) + Len(word) < total_length
                         THEN (extra_spaces \div 2) + Len(word) ELSE total_length),
             total_length)

\* qualifier.py:153-168
paddedWord(word, max_length, centered_, extra_spaces) ==
  LET total_length == max_length + extra_spaces IN
  IF centered_ THEN center(word, total_length)
  ELSE LET m == (extra_spaces \div 2) + Len(word)
           _word == rjust(word, IF m < total_length THEN m ELSE total_length)
       IN ljust(_word, total_length)

\* the loop of firstLine, qualifier.py:91-93
RECURSIVE firstLineLoop(_, _, _, _)
firstLineLoop(col_lengths, bd, extra_spaces, i) ==
  IF i > Len(col_lengths) THEN <<>>
  ELSE Repeat(bd.h, col_lengths[i] + extra_spaces) \o <<bd.tc>>
       \o firstLineLoop(col_lengths, bd, extra_spaces, i + 1)

\* mutant: the guard for no column is missing
firstLine_NoGuard(col_lengths, bd, extra_spaces) ==
  LET _line == <<bd.tl>> \o firstLineLoop(col_lengths, bd, extra_spaces, 1)
  IN SubSeq(_line, 1, Len(_line) - 1) \o <<bd.tr>>

\* qualifier.py:78-96
firstLine(col_lengths, bd, extra_spaces) ==
  IF Len(col_lengths) < 1 THEN <<>>
  ELSE LET _line == <<bd.tl>> \o firstLineLoop(col_lengths, bd, extra_spaces, 1)
       IN SubSeq(_line, 1, Len(_line) - 1) \o <<bd.tr>>

\* qualifier.py:99-112
headerBotLine(col_lengths, bd, extra_spaces) ==
  replace(replace(replace(firstLine(col_lengths, bd, extra_spaces),
                          bd.tl, bd.ml), bd.tc, bd.mc), bd.tr, bd.mr)

\* mutant: the inner junctions are not replaced
lastLine_KeepsJunction(col_lengths, bd, extra_spaces) ==
  replace(replace(firstLine(col_lengths, bd, extra_spaces),
                  bd.tl, bd.bl), bd.tr, bd.br)

\* qualifier.py:137-150
lastLine(col_lengths, bd, extra_spaces) ==
  replace(replace(replace(firstLine(col_lengths, bd, extra_spaces),
                          bd.tl, bd.bl), bd.tc, bd.bc), bd.tr, bd.br)

\* the loop of wordsLine, qualifier.py:130-133
RECURSIVE wordsLineLoop(_, _, _, _, _, _)
wordsLineLoop(col_lengths, bd, words, centered_, extra_spaces, i) ==
  IF i > Len(col_lengths) THEN <<>>
  ELSE paddedWord(words[i], col_lengths[i], centered_, extra_spaces) \o <<bd.v>>
       \o wordsLineLoop(col_lengths, bd, words, centered_, extra_spaces, i + 1)

\* qualifier.py:115-134
wordsLine(col_lengths, bd, words, centered_, extra_spaces) ==
  IF Len(col_lengths) < 1 THEN <<>>
  ELSE <<bd.v>> \o wordsLineLoop(col_lengths, bd, words, centered_, extra_spaces, 1)

\* list(map(str, xs))
StrAll(xs) == [i \in 1..Len(xs) |-> str(xs[i])]

\* mutant: the newline after the header separator is missing
createHeaderLines_NoNewline(labels_, col_lengths, bd, centered_, extra_spaces) ==
  wordsLine(col_lengths, bd, StrAll(labels_), centered_, extra_spaces) \o <<NL>>
  \o headerBotLine(col_lengths, bd, extra_spaces)

\* qualifier.py:44-58
createHeaderLines(labels_, col_lengths, bd, centered_, extra_spaces) ==
  LET words == StrAll(labels_)
      _lines == wordsLine(col_lengths, bd, words, centered_, extra_spaces) \o <<NL>>
  IN _lines \o headerBotLine(col_lengths, bd, extra_spaces) \o <<NL>>

\* the loop of createWordsLines, qualifier.py:72-75
RECURSIVE createWordsLinesLoop(_, _, _, _, _, _)
createWordsLinesLoop(wordsTable, col_lengths, bd, centered_, extra_spaces, r) ==
  IF r > Len(wordsTable) THEN <<>>
  ELSE wordsLine(col_lengths, bd, StrAll(wordsTable[r]), centered_, extra_spaces)
       \o <<NL>>
       \o createWordsLinesLoop(wordsTable, col_lengths, bd, centered_, extra_spaces, r + 1)

\* mutant: every row line is followed by two newlines
RECURSIVE createWordsLines_BlankLine(_, _, _, _, _)
createWordsLines_BlankLine(wordsTable, col_lengths, bd, centered_, extra_spaces) ==
  IF wordsTable = <<>> THEN <<>>
  ELSE wordsLine(col_lengths, bd, StrAll(Head(wordsTable)), centered_, extra_spaces)
       \o <<NL, NL>>
       \o createWordsLines_BlankLine(Tail(wordsTable), col_lengths, bd, centered_,
                                     extra_spaces)

\* qualifier.py:60-76
createWordsLines(wordsTable, col_lengths, bd, centered_, extra_spaces) ==
  createWordsLinesLoop(wordsTable, col_lengths, bd, centered_, extra_spaces, 1)

\* max(len(str(row[i])) for row in rows), qualifier.py:16
RECURSIVE MaxCellLen(_, _, _)
MaxCellLen(rows_, i, r) ==
  IF r = Len(rows_) THEN Len(str(rows_[r][i]))
  ELSE max(Len(str(rows_[r][i])), MaxCellLen(rows_, i, r + 1))

\* qualifier.py:16
CellLengths(rows_) ==
  [i \in 1..Len(rows_[1]) |-> MaxCellLen(rows_, i, 1)]

\* qualifier.py:17
LabelsLength(rows_, labels_) ==
  IF labels_.given THEN [i \in 1..Len(labels_.items) |-> Len(str(labels_.items[i]))]
  ELSE [i \in 1..Len(rows_[1]) |-> 0]

\* labels_length[i] of qualifier.py:18 is out of range for some column
LabelsIndexError(rows_, labels_) ==
  Len(LabelsLength(rows_, labels_)) < Len(rows_[1])

\* mutant: the labels do not count for the width
ColumnLengths_NoLabels(rows_, labels_) == CellLengths(rows_)

\* COL_LENGTHS after qualifier.py:16-18 (when line 18 does not raise)
ColumnLengths(rows_, labels_) ==
  LET MAX_COLUMNS == Len(rows_[1])
      COL_LENGTHS == CellLengths(rows_)
      labels_length == LabelsLength(rows_, labels_)
  IN [i \in 1..MAX_COLUMNS |-> max(COL_LENGTHS[i], labels_length[i])]

\* qualifier.py:4-38.  The result: raised (IndexError at line 18), the
\* local COL_LENGTHS at the end of the call, and the string returned.
make_table(rows_, labels_, centered_) ==
  IF LabelsIndexError(rows_, labels_)
  THEN [raised |-> TRUE, COL_LENGTHS |-> CellLengths(rows_), table |-> <<>>]
  ELSE
    LET COL_LENGTHS == ColumnLengths(rows_, labels_)
        t1 == firstLine(COL_LENGTHS, border, EXTRA_SPACES) \o <<NL>>
        t2 == IF labels_.given /\ Len(labels_.items) > 0
              THEN t1 \o createHeaderLines(labels_.items, COL_LENGTHS, border,
                                           centered_, EXTRA_SPACES)
              ELSE t1
        t3 == t2 \o createWordsLines(rows_, COL_LENGTHS, border, centered_,
                                     EXTRA_SPACES)
        t4 == t3 \o lastLine(COL_LENGTHS, border, EXTRA_SPACES)
    IN [raised |-> FALSE, COL_LENGTHS |-> COL_LENGTHS, table |-> t4]

----------------------------------------------------------------------------
(* The state machine: one call of make_table on an input of the bounded set *)

\* the shapes (rows, columns) of the inputs
Shapes == {sh \in (1..MaxCells) \X (0..MaxCols) : sh[1] * sh[2] <= MaxCells}

RowsOf(sh) == [1..sh[1] -> [1..sh[2] -> CellValues]]

LabelsOf(sh) ==
  {NoneLabels, SomeLabels(<<>>)}
  \cup {SomeLabels(items) : items \in [1..sh[2] -> LabelValues]}

NotReturned == [raised |-> FALSE, COL_LENGTHS |-> <<>>, table |-> <<>>]

Init ==
  /\ \E sh \in Shapes : rows \in RowsOf(sh) /\ labels \in LabelsOf(sh)
  /\ centered \in BOOLEAN
  /\ pc = "call"
  /\ ret = NotReturned

MakeTable ==
  /\ pc = "call"
  /\ ret' = make_table(rows, labels, centered)
  /\ pc' = "returned"
  /\ UNCHANGED <<rows, labels, centered>>

Next == MakeTable

Spec == Init /\ [][Next]_vars

----------------------------------------------------------------------------------------------------------------------------------------
(* Reading the returned string *)

\* table.split("\n")
RECURSIVE SplitLines(_)
SplitLines(s) ==
  IF \A i \in 1..Len(s) : s[i] # NL THEN <<s>>
  ELSE LET i == CHOOSE k \in 1..Len(s) :
                  s[k] = NL /\ \A j \in 1..(k - 1) : s[j] # NL
       IN <<SubSeq(s, 1, i - 1)>> \o SplitLines(SubSeq(s, i + 1, Len(s)))

Lines == SplitLines(ret.table)
NumRows == Len(rows)
NumCols == Len(rows[1])
Returned == pc = "returned"
HasHeader == labels.given /\ Len(labels.items) > 0
\* labels absent, or as long as the rows
Rectangular == ~labels.given \/ Len(labels.items) = NumCols
\* a rectangular input with at least one column, after the call
Rendered == Returned /\ Rectangular /\ NumCols >= 1

SetMax(S) == CHOOSE m \in S : \A x \in S : x <= m

\* the width the specification gives column c
SpecWidth(c) ==
  SetMax({Len(str(rows[r][c])) : r \in 1..NumRows}
         \cup (IF labels.given THEN {Len(str(labels.items[c]))} ELSE {}))

SpecWidths == [c \in 1..NumCols |-> SpecWidth(c)]

\* positions, in a line, of the border characters: Bars(W)[c] closes
\* column c of width W[c] + 2, Bars(W)[0] is the left border
Bars(W) ==
  LET bar[c \in 0..Len(W)] == IF c = 0 THEN 1 ELSE bar[c - 1] + W[c] + 2 + 1
  IN bar

\* the content lines with the words each shows: the header, then the rows
ContentWords ==
  (IF HasHeader THEN {<<2, StrAll(labels.items)>>} ELSE {})
  \cup {<<(IF HasHeader THEN 3 ELSE 1) + r, StrAll(rows[r])>> : r \in 1..NumRows}

\* every cell of the lines L, as <<its characters, the word it shows, the
\* width of its column>>
Cells(L, W) ==
  LET B == Bars(W) IN
  {<<SubSeq(L[cw[1]], B[c - 1] + 1, B[c] - 1), cw[2][c], W[c]>> :
     cw \in ContentWords, c \in 1..NumCols}

Padded(seg, word, l, r) == seg = Repeat(SP, l) \o word \o Repeat(SP, r)

\* seg is word with l spaces before it and r after it, for some l and r
\* that the predicate Ok(l, r, Len(seg)) accepts
PaddedSome(seg, word, Ok(_, _, _)) ==
  /\ Len(seg) >= Len(word)
  /\ \E l \in 0..(Len(seg) - Len(word)) :
       /\ Ok(l, Len(seg) - Len(word) - l, Len(seg))
       /\ Padded(seg, word, l, Len(seg) - Len(word) - l)

----------------------------------------------------------------------------
(* The claims *)

\* C1: for a rectangular input with at least one column, in both modes, all
\* lines of the returned string have the same number of characters.
C1_AllLinesSameLength ==
  Rendered =>
    /\ ~ret.raised
    /\ LET L == Lines IN \A i \in 1..Len(L) : Len(L[i]) = Len(L[1])

C1_Witness ==
  /\ Rendered /\ HasHeader /\ centered /\ NumCols = 2 /\ NumRows = 2
  /\ \E c \in 1..NumCols : Len(str(rows[1][c])) # Len(str(rows[2][c]))
  /\ Len(Lines) = 6 /\ Len(Lines[1]) = Len(Lines[6])

\* C2: the returned string has NumRows + 2 lines without labels and
\* NumRows + 4 lines with non-empty labels, whatever centered is.
C2_LineCount ==
  Returned =>
    LET n == Len(Lines) IN
    /\ ~labels.given => ~ret.raised /\ n = NumRows + 2
    /\ (HasHeader /\ Rectangular) => ~ret.raised /\ n = NumRows + 4
    /\ Rectangular =>
         Len(SplitLines(make_table(rows, labels, ~centered).table)) = n

C2_Witness ==
  /\ Returned /\ HasHeader /\ Rectangular /\ NumRows = 3 /\ Len(Lines) = 7

\* C3 as stated: the returned string has between NumRows + 1 and
\* NumRows + 3 lines.
C3_Original ==
  (Returned /\ Rectangular) =>
    /\ ~ret.raised
    /\ LET n == Len(Lines) IN n >= NumRows + 1 /\ n <= NumRows + 3

\* C3 amended: the returned string has between NumRows + 2 and
\* NumRows + 4 lines.
C3_LineCountRange ==
  (Returned /\ Rectangular) =>
    /\ ~ret.raised
    /\ LET n == Len(Lines) IN n >= NumRows + 2 /\ n <= NumRows + 4

C3_Witness ==
  /\ Returned /\ Rectangular /\ HasHeader /\ ~centered /\ NumRows = 1
  /\ Len(Lines) = NumRows + 4

\* C4: the width used for a column is the maximum of the lengths of the
\* texts of its cells and of its label; no text is longer than its column.
C4_ColumnWidth ==
  (Returned /\ Rectangular) =>
    /\ ~ret.raised
    /\ Len(ret.COL_LENGTHS) = NumCols
    /\ \A c \in 1..NumCols :
         /\ ret.COL_LENGTHS[c] = SpecWidth(c)
         /\ \A r \in 1..NumRows : Len(str(rows[r][c])) <= ret.COL_LENGTHS[c]
         /\ labels.given => Len(str(labels.items[c])) <= ret.COL_LENGTHS[c]

C4_Witness ==
  /\ Rendered /\ HasHeader /\ NumCols = 2
  /\ \A r \in 1..NumRows : Len(str(labels.items[1])) > Len(str(rows[r][1]))
  /\ \E r \in 1..NumRows : Len(str(labels.items[2])) < Len(str(rows[r][2]))
  /\ ret.COL_LENGTHS[1] = Len(str(labels.items[1]))
  /\ ret.COL_LENGTHS[2] > Len(str(labels.items[2]))

\* C5: the top border is the corner, a run of width + 2 horizontal glyphs per
\* column with a junction between columns, and the corner; the header
\* separator and the bottom border are the top border with the middle and
\* bottom glyphs; the bars of the content lines stand where the junctions do.
C5_BorderShape ==
  Rendered =>
    /\ ~ret.raised
    /\ LET L == Lines
           B == Bars(SpecWidths)
           top == L[1]
           bottom == L[Len(L)]
           end == B[NumCols]
           junctions == {B[c] : c \in 0..NumCols}
       IN /\ Len(top) = end
          /\ \A p \in 1..end :
               top[p] = (IF p = 1 THEN border.tl
                         ELSE IF p = end THEN border.tr
                         ELSE IF p \in junctions THEN border.tc
                         ELSE border.h)
          /\ Len(bottom) = end
          /\ \A p \in 1..end :
               bottom[p] = (IF top[p] = border.tl THEN border.bl
                            ELSE IF top[p] = border.tr THEN border.br
                            ELSE IF top[p] = border.tc THEN border.bc
                            ELSE top[p])
          /\ HasHeader =>
               /\ Len(L[3]) = end
               /\ \A p \in 1..end :
                    L[3][p] = (IF top[p] = border.tl THEN border.ml
                               ELSE IF top[p] = border.tr THEN border.mr
                               ELSE IF top[p] = border.tc THEN border.mc
                               ELSE top[p])
          /\ \A cw \in ContentWords :
               LET line == L[cw[1]] IN
               /\ Len(line) = end
               /\ \A p \in 1..end : (line[p] = border.v) <=> (top[p] # border.h)

C5_Witness ==
  /\ Rendered /\ HasHeader /\ NumCols = 3
  /\ Lines[1][1] = border.tl /\ Lines[3][1] = border.ml /\ Lines[5][1] = border.bl
  /\ \E p \in 2..(Len(Lines[1]) - 1) :
       /\ Lines[1][p] = border.tc /\ Lines[3][p] = border.mc
       /\ Lines[5][p] = border.bc
       /\ Lines[2][p] = border.v /\ Lines[4][p] = border.v

\* C6: in both modes every cell's text has at least one space before it and
\* at least one space after it inside its cell.
AtLeastOneEachSide(l, r, field) == l >= 1 /\ r >= 1

C6_Margins ==
  Rendered =>
    /\ ~ret.raised
    /\ \A cell \in Cells(Lines, SpecWidths) :
         /\ Len(cell[1]) = cell[3] + 2
         /\ cell[1][1] = SP /\ cell[1][Len(cell[1])] = SP
         /\ PaddedSome(cell[1], cell[2], AtLeastOneEachSide)

C6_Witness ==
  /\ Rendered /\ centered /\ HasHeader
  /\ \E cell \in Cells(Lines, SpecWidths) :
       Len(cell[2]) = cell[3] /\ Len(cell[2]) = 4 /\ Padded(cell[1], cell[2], 1, 1)
  /\ \E cell \in Cells(Lines, SpecWidths) : Len(cell[2]) < cell[3]

\* C7 as stated: in centered mode the leading and trailing spaces differ by
\* at most one and an odd leftover space always goes to the right.
OddSpaceRight(l, r, field) == r = l \/ r = l + 1

C7_Original ==
  (Rendered /\ centered) =>
    /\ ~ret.raised
    /\ \A cell \in Cells(Lines, SpecWidths) :
         /\ Len(cell[1]) = cell[3] + 2
         /\ PaddedSome(cell[1], cell[2], OddSpaceRight)

\* C7 amended: in centered mode the leading and trailing spaces differ by at
\* most one; an odd leftover space goes to the left when the field width
\* (column width + 2) is odd and to the right when it is even.
OddSpaceByFieldParity(l, r, field) ==
  \/ r = l
  \/ field % 2 = 1 /\ l = r + 1
  \/ field % 2 = 0 /\ r = l + 1

C7_CenterBias ==
  (Rendered /\ centered) =>
    /\ ~ret.raised
    /\ \A cell \in Cells(Lines, SpecWidths) :
         /\ Len(cell[1]) = cell[3] + 2
         /\ PaddedSome(cell[1], cell[2], OddSpaceByFieldParity)

C7_Witness ==
  /\ Rendered /\ centered
  /\ \E cell \in Cells(Lines, SpecWidths) :
       Len(cell[2]) = 2 /\ cell[3] = 3 /\ Padded(cell[1], cell[2], 2, 1)
  /\ \E cell \in Cells(Lines, SpecWidths) :
       Len(cell[2]) = 1 /\ cell[3] = 2 /\ Padded(cell[1], cell[2], 1, 2)

\* C8: in left-aligned mode a cell is one space, the word unchanged, then
\* column width + 1 - word length spaces: column width + 2 characters.
C8_LeftAligned ==
  (Rendered /\ ~centered) =>
    /\ ~ret.raised
    /\ \A cell \in Cells(Lines, SpecWidths) :
         /\ Len(cell[1]) = cell[3] + 2
         /\ Padded(cell[1], cell[2], 1, cell[3] + 1 - Len(cell[2]))

\* rows [[7, "ab"], ["abc", 7]]: the first row's cells are ' 7   ' and ' ab '
C8_Witness ==
  /\ Returned /\ ~centered /\ ~labels.given
  /\ rows = << <<IntVal(7), StrVal(<<"a", "b">>)>>,
               <<StrVal(<<"a", "b", "c">>), IntVal(7)>> >>
  /\ Lines[2] = <<border.v, SP, "7", SP, SP, SP,
                  border.v, SP, "a", "b", SP, border.v>>

\* C9: with labels an empty sequence, make_table emits no header and returns
\* the string it returns when labels is omitted.
C9_EmptyLabels ==
  (Returned /\ labels.given /\ labels.items = <<>>) =>
    /\ ~ret.raised
    /\ ret.table = make_table(rows, NoneLabels, centered).table

\* C10: with zero columns every line generator returns the empty string and
\* make_table returns NumRows + 2 lines, all empty, without raising.
C10_ZeroColumns ==
  (Returned /\ NumCols = 0 /\ Rectangular) =>
    /\ ~ret.raised
    /\ ret.COL_LENGTHS = <<>>
    /\ firstLine(ret.COL_LENGTHS, border, EXTRA_SPACES) = <<>>
    /\ headerBotLine(ret.COL_LENGTHS, border, EXTRA_SPACES) = <<>>
    /\ lastLine(ret.COL_LENGTHS, border, EXTRA_SPACES) = <<>>
    /\ \A r \in 1..NumRows :
         wordsLine(ret.COL_LENGTHS, border, StrAll(rows[r]), centered,
                   EXTRA_SPACES) = <<>>
    /\ LET L == Lines IN
       Len(L) = NumRows + 2 /\ \A i \in 1..Len(L) : L[i] = <<>>

C10_Witness ==
  /\ Returned /\ NumCols = 0 /\ NumRows = 3 /\ ~ret.raised
  /\ ret.table = <<NL, NL, NL, NL>>

====
